---- MODULE Spec2Model ----
(***************************************************************************)
(* Packaging & palletization calculator (packaging_calculator1.py).        *)
(*                                                                         *)
(* The script is re-executed top to bottom for every run of the form.      *)
(* A run binds the pallet constants, reads the widget values, builds the   *)
(* two lists of stacking configurations and, when the form was submitted,  *)
(* executes the submit block.                                              *)
(*                                                                         *)
(* Number representation.  Lengths are decimal fixed-point numbers with    *)
(* one fractional digit: the integer n stands for n/10 (so 1.5 mm is 15    *)
(* and 1219 mm is 12190).  Weights are exact fractions [n, d] standing for *)
(* n/d.  Stacking counts and pallet counts are plain integers.  All        *)
(* arithmetic is exact: the rounding of the script's binary floating-point *)
(* values is not modelled.                                                 *)
(***************************************************************************)
EXTENDS Integers, Sequences, FiniteSets, TLC

VARIABLES
    \* module globals bound at lines 10-14
    PALLET_LENGTH_MM, PALLET_WIDTH_MM, PALLET_HEIGHT_MM,
    PALLET_BASE_HEIGHT_MM, USABLE_HEIGHT_MM,
    \* widget values of the run (lines 91-121)
    unit_system, typed, units_per_inner, inners_per_outer,
    possible_inner_configs, possible_outer_configs,
    inner_config, outer_config,
    inner_type, inner_thickness, outer_type, outer_thickness,
    \* globals rebound by the submit block (lines 127-137)
    length, width, height, weight,
    inner_dims, outer_dims, inner_weight, outer_weight,
    per_layer, layers, total_cartons, total_units_per_pallet,
    \* position of the run: "form", "success" or "ZeroDivisionError"
    outcome,
    \* history of one earlier submission (empty or one record)
    prev

pallet_vars == <<PALLET_LENGTH_MM, PALLET_WIDTH_MM, PALLET_HEIGHT_MM,
                 PALLET_BASE_HEIGHT_MM, USABLE_HEIGHT_MM>>

widget_vars == <<unit_system, typed, units_per_inner, inners_per_outer,
                 possible_inner_configs, possible_outer_configs,
                 inner_config, outer_config,
                 inner_type, inner_thickness, outer_type, outer_thickness>>

result_vars == <<length, width, height, weight,
                 inner_dims, outer_dims, inner_weight, outer_weight,
                 per_layer, layers, total_cartons, total_units_per_pallet,
                 outcome>>

vars == <<pallet_vars, widget_vars, result_vars, prev>>

----------------------------------------------------------------------------
\* Bounds of the model.

MaxUnitsPerInner == 6

MaxInnersPerOuter == 2

SessionMaxCount == 2

----------------------------------------------------------------------------
\* Number representation helpers.

\* the fixed-point representation of the whole number n
Fx(n) == n * 10

\* the fraction n/d
Frac(n, d) == [n |-> n, d |-> d]

\* Python's None, and a name that the run has not bound
None == <<>>

Range(s) == {s[i] : i \in DOMAIN s}

----------------------------------------------------------------------------
\* Material options (thickness in mm), lines 17-23.  A value is <<t>>, or None.

MATERIAL_THICKNESS ==
    [t \in {"B Flute (3 mm)", "C Flute (4 mm)", "E Flute (1.5 mm)",
            "Double Wall (7 mm)", "Custom"} |->
        CASE t = "B Flute (3 mm)"     -> <<Fx(3)>>
          [] t = "C Flute (4 mm)"     -> <<Fx(4)>>
          [] t = "E Flute (1.5 mm)"   -> <<15>>
          [] t = "Double Wall (7 mm)" -> <<Fx(7)>>
          [] t = "Custom"             -> None]

----------------------------------------------------------------------------
\* Unit conversion functions, lines 26-32.

\* inch * 25.4 on one-digit fixed point; exact when inch is a multiple of 0.5
in_to_mm(inch) == (inch * 254) \div 10

\* lb / 2.20462 on fractions
lb_to_kg(lb) == Frac(lb.n * 100000, lb.d * 220462)

\* convert_inputs reading the lengths a previous run left converted
convert_inputs_drift(l, w, h, wt, us) ==
    LET sl == IF outcome = "form" THEN l ELSE length
        sw == IF outcome = "form" THEN w ELSE width
        sh == IF outcome = "form" THEN h ELSE height
    IN  IF us = "imperial"
        THEN <<in_to_mm(sl), in_to_mm(sw), in_to_mm(sh), lb_to_kg(wt)>>
        ELSE <<sl, sw, sh, wt>>

\* Input handler, lines 35-41.
convert_inputs(l, w, h, wt, us) ==
    IF us = "imperial"
    THEN <<in_to_mm(l), in_to_mm(w), in_to_mm(h), lb_to_kg(wt)>>
    ELSE <<l, w, h, wt>>

----------------------------------------------------------------------------
\* Stacking, lines 44-46 (Python's dims[0..2] are dims[1..3] here).

\* calculate_dimensions multiplying every axis by the first factor
calculate_dimensions_uniform(config, dims) ==
    <<dims[1] * config[1], dims[2] * config[1], dims[3] * config[1]>>

calculate_dimensions(config, dims) ==
    <<dims[1] * config[1], dims[2] * config[2], dims[3] * config[3]>>

\* inflate adding the wall on one side only
inflate_single_wall(dims, thickness) ==
    <<dims[1] + thickness, dims[2] + thickness, dims[3] + thickness>>

\* Wall thickness on both sides of every axis, lines 129 and 131.
inflate(dims, thickness) ==
    <<dims[1] + 2 * thickness, dims[2] + 2 * thickness, dims[3] + 2 * thickness>>

\* scale_weight adding the count instead of multiplying by it
scale_weight_additive(w, count) == Frac(w.n + count * w.d, w.d)

\* weight * count, lines 133-134.
scale_weight(w, count) == Frac(w.n * count, w.d)

----------------------------------------------------------------------------
\* Pallet calculation, lines 49-52.

\* Python's a // b for b > 0
floordiv(a, b) == a \div b

\* Python's int(a / b) for b > 0: the quotient truncated toward zero
int_truediv(a, b) == IF a >= 0 THEN a \div b ELSE 0 - ((0 - a) \div b)

\* both divisions raise ZeroDivisionError on a zero divisor
pallet_fit_raises(outer_L, outer_W, outer_H) ==
    outer_L = 0 \/ outer_W = 0 \/ outer_H = 0

\* pallet_fit tiling the length along the pallet width and the width along its length
pallet_fit_rotated(outer_L, outer_W, outer_H) ==
    LET pl == floordiv(Fx(PALLET_LENGTH_MM), outer_W)
              * floordiv(Fx(PALLET_WIDTH_MM), outer_L)
        ly == int_truediv(Fx(USABLE_HEIGHT_MM), outer_H)
    IN  <<pl, ly, pl * ly>>

\* pallet_fit stacking up to the full pallet height, base included
pallet_fit_full_height(outer_L, outer_W, outer_H) ==
    LET pl == floordiv(Fx(PALLET_LENGTH_MM), outer_L)
              * floordiv(Fx(PALLET_WIDTH_MM), outer_W)
        ly == int_truediv(Fx(PALLET_HEIGHT_MM), outer_H)
    IN  <<pl, ly, pl * ly>>

pallet_fit(outer_L, outer_W, outer_H) ==
    LET pl == floordiv(Fx(PALLET_LENGTH_MM), outer_L)
              * floordiv(Fx(PALLET_WIDTH_MM), outer_W)
        ly == int_truediv(Fx(USABLE_HEIGHT_MM), outer_H)
    IN  <<pl, ly, pl * ly>>

----------------------------------------------------------------------------
\* Lists of stacking configurations, lines 104-107.

\* itertools.product(range(1, n+1), repeat=3), in its order
product3(n) ==
    [k \in 1..(n * n * n) |->
        <<((k - 1) \div (n * n)) + 1,
          (((k - 1) \div n) % n) + 1,
          ((k - 1) % n) + 1>>]

\* possible_configs keeping one arrangement per multiset of factors (x <= y <= z)
possible_configs_unordered(n) ==
    SelectSeq(product3(n), LAMBDA cfg : /\ cfg[1] * cfg[2] * cfg[3] = n
                                         /\ cfg[1] <= cfg[2]
                                         /\ cfg[2] <= cfg[3])

possible_configs(n) ==
    SelectSeq(product3(n), LAMBDA cfg : cfg[1] * cfg[2] * cfg[3] = n)

----------------------------------------------------------------------------
\* Values the user can give the widgets (lines 91-121).  Number inputs have
\* min_value 0.0 (lengths, weight, custom thickness) or 1 (the two counts).

UnitSystems == {"metric", "imperial"}

\* (length, width, height) as typed, in mm or in
UnitBoxes ==
    { <<Fx(0), Fx(0), Fx(0)>>,
      <<Fx(100), Fx(80), Fx(50)>>,
      <<Fx(0), Fx(80), Fx(50)>>,
      <<Fx(100), Fx(0), Fx(50)>>,
      <<Fx(100), Fx(80), Fx(0)>>,
      <<Fx(700), Fx(600), Fx(900)>> }

\* weight as typed, in kg or lb
UnitWeights == { Frac(0, 1), Frac(1, 2) }

MaterialTypes == DOMAIN MATERIAL_THICKNESS

\* values typed into the custom thickness input
CustomThickness == { Fx(0), 25 }

\* line 117 / 121: the preset, or the custom number input when the preset is None
ThicknessChoices(type, custom) ==
    IF MATERIAL_THICKNESS[type] # None
    THEN {MATERIAL_THICKNESS[type][1]}
    ELSE custom

\* the widget values tried by the multi-run specification
SessionBoxes == { <<Fx(0), Fx(0), Fx(0)>>, <<Fx(100), Fx(80), Fx(50)>> }

SessionWeights == { Frac(1, 2) }

SessionInnerTypes == { "B Flute (3 mm)", "Custom" }

SessionOuterTypes == { "Custom" }

SessionCustomThickness == { Fx(0) }

----------------------------------------------------------------------------
\* The pallet constants as the script binds them, lines 10-14.

BindPalletConstants ==
    /\ PALLET_LENGTH_MM = 1219
    /\ PALLET_WIDTH_MM = 1016
    /\ PALLET_HEIGHT_MM = 1800
    /\ PALLET_BASE_HEIGHT_MM = 148
    /\ USABLE_HEIGHT_MM = PALLET_HEIGHT_MM - PALLET_BASE_HEIGHT_MM

\* The submit block, lines 125-162, on the widget values of the run.
\* ZeroDivisionError is not a ValueError: it leaves the try block uncaught and
\* the names after line 136 stay unbound.
SubmitBlock(us, box, wt, upi, ipo, icfg, ocfg, ith, oth) ==
    LET conv   == convert_inputs(box[1], box[2], box[3], wt, us)
        idims  == inflate(calculate_dimensions(icfg, <<conv[1], conv[2], conv[3]>>), ith)
        odims  == inflate(calculate_dimensions(ocfg, idims), oth)
        iw     == scale_weight(conv[4], upi)
        ow     == scale_weight(iw, ipo)
    IN  /\ length' = conv[1]
        /\ width' = conv[2]
        /\ height' = conv[3]
        /\ weight' = conv[4]
        /\ inner_dims' = idims
        /\ outer_dims' = odims
        /\ inner_weight' = iw
        /\ outer_weight' = ow
        /\ IF pallet_fit_raises(odims[1], odims[2], odims[3])
           THEN /\ per_layer' = None
                /\ layers' = None
                /\ total_cartons' = None
                /\ total_units_per_pallet' = None
                /\ outcome' = "ZeroDivisionError"
           ELSE LET fit == pallet_fit(odims[1], odims[2], odims[3])
                IN  /\ per_layer' = fit[1]
                    /\ layers' = fit[2]
                    /\ total_cartons' = fit[3]
                    /\ total_units_per_pallet' = fit[3] * upi * ipo
                    /\ outcome' = "success"

----------------------------------------------------------------------------
\* One run of the script, started with the form submitted.

\* The script has run down to line 123 with the widget values of this run.
Init ==
    /\ BindPalletConstants
    /\ unit_system \in UnitSystems
    /\ typed \in UnitBoxes \X UnitWeights
    /\ units_per_inner \in 1..MaxUnitsPerInner
    /\ inners_per_outer \in 1..MaxInnersPerOuter
    /\ possible_inner_configs = possible_configs(units_per_inner)
    /\ possible_outer_configs = possible_configs(inners_per_outer)
    /\ inner_config \in Range(possible_inner_configs)
    /\ outer_config \in Range(possible_outer_configs)
    /\ inner_type \in MaterialTypes
    /\ inner_thickness \in ThicknessChoices(inner_type, CustomThickness)
    /\ outer_type \in MaterialTypes
    /\ outer_thickness \in ThicknessChoices(outer_type, CustomThickness)
    /\ length = typed[1][1]
    /\ width = typed[1][2]
    /\ height = typed[1][3]
    /\ weight = typed[2]
    /\ inner_dims = None
    /\ outer_dims = None
    /\ inner_weight = None
    /\ outer_weight = None
    /\ per_layer = None
    /\ layers = None
    /\ total_cartons = None
    /\ total_units_per_pallet = None
    /\ outcome = "form"
    /\ prev = <<>>

\* Lines 125-162.
Calculate ==
    /\ outcome = "form"
    /\ SubmitBlock(unit_system, <<length, width, height>>, weight,
                   units_per_inner, inners_per_outer,
                   inner_config, outer_config, inner_thickness, outer_thickness)
    /\ UNCHANGED <<pallet_vars, widget_vars, prev>>

Next == Calculate

Spec == Init /\ [][Next]_vars

----------------------------------------------------------------------------
\* A session: the first load shows the form with the widget defaults and
\* computes nothing; every later run is a submission of the form.

InitSession ==
    /\ BindPalletConstants
    /\ unit_system = "metric"
    /\ typed = << <<Fx(0), Fx(0), Fx(0)>>, Frac(0, 1) >>
    /\ units_per_inner = 1
    /\ inners_per_outer = 1
    /\ possible_inner_configs = possible_configs(units_per_inner)
    /\ possible_outer_configs = possible_configs(inners_per_outer)
    /\ inner_config = possible_inner_configs[1]
    /\ outer_config = possible_outer_configs[1]
    /\ inner_type = "B Flute (3 mm)"
    /\ inner_thickness = MATERIAL_THICKNESS[inner_type][1]
    /\ outer_type = "B Flute (3 mm)"
    /\ outer_thickness = MATERIAL_THICKNESS[outer_type][1]
    /\ length = typed[1][1]
    /\ width = typed[1][2]
    /\ height = typed[1][3]
    /\ weight = typed[2]
    /\ inner_dims = None
    /\ outer_dims = None
    /\ inner_weight = None
    /\ outer_weight = None
    /\ per_layer = None
    /\ layers = None
    /\ total_cartons = None
    /\ total_units_per_pallet = None
    /\ outcome = "form"
    /\ prev = <<>>

\* what a run was given and what it produced
Snapshot == [widgets |-> widget_vars, results |-> result_vars]

\* The user edits the form and presses Calculate: the whole script runs again
\* (lines 10-14 bind the same constants, lines 91-121 read the widgets, lines
\* 125-162 compute).  prev keeps one earlier submission, picked once.
Resubmit ==
    \E us \in UnitSystems, box \in SessionBoxes, wt \in SessionWeights,
       upi \in 1..SessionMaxCount, ipo \in {1},
       ityp \in SessionInnerTypes, otyp \in SessionOuterTypes :
      LET icfgs == possible_configs(upi)
          ocfgs == possible_configs(ipo)
      IN  \E icfg \in Range(icfgs), ocfg \in Range(ocfgs),
             ith \in ThicknessChoices(ityp, SessionCustomThickness),
             oth \in ThicknessChoices(otyp, SessionCustomThickness) :
            /\ unit_system' = us
            /\ typed' = <<box, wt>>
            /\ units_per_inner' = upi
            /\ inners_per_outer' = ipo
            /\ possible_inner_configs' = icfgs
            /\ possible_outer_configs' = ocfgs
            /\ inner_config' = icfg
            /\ outer_config' = ocfg
            /\ inner_type' = ityp
            /\ inner_thickness' = ith
            /\ outer_type' = otyp
            /\ outer_thickness' = oth
            /\ SubmitBlock(us, box, wt, upi, ipo, icfg, ocfg, ith, oth)
            /\ \/ prev' = prev
               \/ /\ prev = <<>>
                  /\ outcome # "form"
                  /\ prev' = <<Snapshot>>
            /\ UNCHANGED pallet_vars

NextSession == Resubmit

SpecSession == InitSession /\ [][NextSession]_vars

----------------------------------------------------------------------------
\* Properties.

Axes == 1..3

\* the run has executed lines 127-134 (they precede the call of pallet_fit)
Composed == outcome \in {"success", "ZeroDivisionError"}

\* list holds exactly the ordered triples of positive integers with product n
ExactFactorList(list, n) ==
    /\ \A i \in DOMAIN list :
          /\ list[i] \in (1..n) \X (1..n) \X (1..n)
          /\ list[i][1] * list[i][2] * list[i][3] = n
    /\ \A x \in 1..n, y \in 1..n, z \in 1..n :
          x * y * z = n => \E i \in DOMAIN list : list[i] = <<x, y, z>>
    /\ \A i \in DOMAIN list, j \in DOMAIN list : i # j => list[i] # list[j]
    /\ n = 1 => list = << <<1, 1, 1>> >>

\* C1: the list built for units_per_inner, and the one built for
\* inners_per_outer, holds exactly the ordered triples (x,y,z) of positive
\* integers whose product is the count: each listed triple has that product,
\* each such triple is listed, none is listed twice, and for the count 1 the
\* list is [(1,1,1)].
C1_FactorListExact ==
    /\ ExactFactorList(possible_inner_configs, units_per_inner)
    /\ ExactFactorList(possible_outer_configs, inners_per_outer)

C1_Witness ==
    /\ units_per_inner = 6
    /\ Len(possible_inner_configs) = 9
    /\ \E i \in DOMAIN possible_inner_configs : possible_inner_configs[i] = <<3, 2, 1>>
    /\ inners_per_outer = 1
    /\ possible_outer_configs = << <<1, 1, 1>> >>

C3_ComposeThenInflate ==
    Composed =>
        LET d == <<length, width, height>>
        IN  /\ \A a \in Axes :
                  /\ inner_dims[a] = inner_config[a] * d[a] + 2 * inner_thickness
                  /\ outer_dims[a] = outer_config[a] * inner_dims[a] + 2 * outer_thickness
            /\ (/\ d = <<1000, 800, 500>>
                /\ inner_config = <<2, 2, 1>> /\ inner_thickness = 30
                /\ outer_config = <<2, 1, 1>> /\ outer_thickness = 40)
               => /\ inner_dims = <<2060, 1660, 560>>
                  /\ outer_dims = <<4200, 1740, 640>>

C3_Witness ==
    /\ Composed
    /\ <<length, width, height>> = <<1000, 800, 500>>
    /\ inner_config = <<2, 2, 1>> /\ inner_thickness = 30
    /\ outer_config = <<2, 1, 1>> /\ outer_thickness = 40
    /\ inner_dims = <<2060, 1660, 560>>
    /\ outer_dims = <<4200, 1740, 640>>

\* C4: when an axis of the outer box is zero the pallet fit raises nothing and
\* returns cartons_per_layer, layers, total_cartons and total_units all 0.
C4_ZeroGuard ==
    (Composed /\ \E a \in Axes : outer_dims[a] = 0) =>
        /\ outcome = "success"
        /\ per_layer = 0
        /\ layers = 0
        /\ total_cartons = 0
        /\ total_units_per_pallet = 0

\* C7: weights multiply: inner_weight = w * units_per_inner and outer_weight =
\* inner_weight * inners_per_outer = w * units_per_inner * inners_per_outer,
\* whatever the stacking factors and the thicknesses.
C7_WeightMultiplicative ==
    Composed =>
        /\ inner_weight = Frac(weight.n * units_per_inner, weight.d)
        /\ outer_weight = Frac(inner_weight.n * inners_per_outer, inner_weight.d)
        /\ outer_weight = Frac(weight.n * units_per_inner * inners_per_outer, weight.d)

C7_Witness ==
    /\ Composed
    /\ weight = Frac(1, 2)
    /\ units_per_inner = 4 /\ inners_per_outer = 2
    /\ inner_config = <<2, 2, 1>> /\ inner_thickness = 15
    /\ inner_weight = Frac(4, 2)
    /\ outer_weight = Frac(8, 2)

\* compose-then-inflate against inflate-then-compose of box d by factor f and
\* thickness t >= 0
OrderMatters(f, d, t) ==
    LET ci == inflate(calculate_dimensions(f, d), t)
        ic == calculate_dimensions(f, inflate(d, t))
    IN  /\ \A a \in Axes : ci[a] = f[a] * d[a] + 2 * t
        /\ \A a \in Axes : ic[a] = f[a] * (d[a] + 2 * t)
        /\ t > 0 => \A a \in Axes : f[a] > 1 => ci[a] # ic[a]
        /\ ci = ic <=> (t = 0 \/ f = <<1, 1, 1>>)

PositiveBox(d) == \A a \in Axes : d[a] > 0

\* C9: for a box d with positive dimensions and a stacking factor f,
\* inflate(compose(f,d),t) and compose(f,inflate(d,t)) are f*d + 2t and
\* f*(d + 2t): with t > 0 they differ on every axis whose factor exceeds 1, and
\* they agree on all axes only when t = 0 or f = (1,1,1).  The run's own
\* dimensions are the compose-then-inflate ones.
C9_ComposeInflateOrder ==
    Composed =>
        /\ PositiveBox(<<length, width, height>>) =>
              /\ OrderMatters(inner_config, <<length, width, height>>, inner_thickness)
              /\ inner_dims = inflate(calculate_dimensions(
                                  inner_config, <<length, width, height>>), inner_thickness)
        /\ PositiveBox(inner_dims) =>
              /\ OrderMatters(outer_config, inner_dims, outer_thickness)
              /\ outer_dims = inflate(calculate_dimensions(outer_config, inner_dims),
                                      outer_thickness)

C9_Witness ==
    /\ Composed
    /\ PositiveBox(<<length, width, height>>)
    /\ inner_config = <<1, 2, 3>>
    /\ inner_thickness = 15
    /\ outer_config = <<1, 1, 1>>
    /\ outer_thickness = 40
    /\ inner_dims[3] # 3 * (height + 2 * inner_thickness)

\* C10: the reported fit stays inside the pallet: for an outer box with
\* positive dimensions (L,W,H), floor(1219/L)*L <= 1219, floor(1016/W)*W <=
\* 1016 and layers*H <= 1652; a layer's cartons cover no more than the pallet
\* footprint; total_cartons is 0 whenever L > 1219, W > 1016 or H > 1652; and
\* every count is a non-negative integer.
C10_FitWithinPallet ==
    outcome = "success" =>
        LET L == outer_dims[1]
            W == outer_dims[2]
            H == outer_dims[3]
        IN  /\ (12190 \div L) * L <= 12190
            /\ (10160 \div W) * W <= 10160
            /\ layers * H <= 16520
            /\ per_layer > 0 =>
                  /\ L <= 12190 /\ W <= 10160
                  /\ per_layer * (L * W) <= 12190 * 10160
            /\ (L > 12190 \/ W > 10160 \/ H > 16520) => total_cartons = 0
            /\ {per_layer, layers, total_cartons, total_units_per_pallet} \subseteq Nat

C10_Witness ==
    /\ outcome = "success"
    /\ outer_dims[1] > 12190
    /\ outer_dims[2] <= 10160
    /\ outer_dims[3] <= 16520
    /\ layers > 0
    /\ total_cartons = 0

----------------------------------------------------------------------------
\* Properties of a session.

\* C8: the computation keeps no state between runs: after any earlier
\* submissions, a submission with the widget values of an earlier one produces
\* the results of the earlier one, and the pallet constants stay 1219, 1016,
\* 1800, 148 and usable height 1652.
C8_Deterministic ==
    /\ PALLET_LENGTH_MM = 1219
    /\ PALLET_WIDTH_MM = 1016
    /\ PALLET_HEIGHT_MM = 1800
    /\ PALLET_BASE_HEIGHT_MM = 148
    /\ USABLE_HEIGHT_MM = 1652
    /\ \A i \in DOMAIN prev :
          prev[i].widgets = widget_vars => prev[i].results = result_vars

C8_Witness ==
    /\ prev # <<>>
    /\ prev[1].widgets = widget_vars
    /\ unit_system = "imperial"
    /\ outcome = "success"
    /\ typed[1] = <<1000, 800, 500>>

====
